---- MODULE Spec2Model ----
(***************************************************************************)
(* Model of LocalVideoTrack (local_video_track.cpp): the adapter that      *)
(* registers itself as a video sink on a webrtc track, forwards            *)
(* enable/disable, and detaches the track's sender from the peer           *)
(* connection on explicit removal and on destruction.                      *)
(*                                                                         *)
(* One control thread calls the adapter's methods serially; its position   *)
(* is pc (with caller telling where RemoveFromPeerConnection returns to).  *)
(* The engine's worker thread delivers frames to the registered sink       *)
(* concurrently (inflight counts the dispatches in progress).              *)
(***************************************************************************)
EXTENDS Integers, Sequences, FiniteSets, TLC

\* ---------------------------------------------------------------- values
NULL == "null"

Tracks == {"T1", "T2"}
Senders == {"S1", "S2"}
Peers == {"E1", "E2"}
Owners == {"P"}
Handles == {"h0", "h1"}

\* The engine peer the parent session passes when it removes a track itself.
ParentPeer == "E1"

\* How the parent session's RemoveLocalVideoTrack treats the adapter:
\*   "reenter": calls the adapter's RemoveFromPeerConnection(ParentPeer)
\*   "clear"  : clears the adapter's back-reference directly
\*   "noop"   : returns without clearing it (contract not honoured)
ParentModes == {"reenter", "clear", "noop"}

\* Largest number of sink dispatches the worker thread has in progress.
MaxInFlight == 2

\* Largest number of RemoveFromPeerConnection calls the owner of the adapter
\* makes.
MaxCalls == 3

VARIABLES
    pc,               \* position of the control thread
    caller,           \* where RemoveFromPeerConnection returns: "idle"/"dtor"
    ownerArg,         \* constructor argument: owner (NULL = null reference)
    trackArg,         \* constructor argument: track
    senderArg,        \* constructor argument: sender
    handleArg,        \* constructor argument: interop_handle
    owner_,           \* member owner_
    track_,           \* member track_
    sender_,          \* member sender_
    interop_handle_,  \* member interop_handle_
    peerArg,          \* argument of the running RemoveFromPeerConnection
    parentMode,       \* behaviour of the parent session
    track,            \* engine state of every track
    remove_track_calls, \* per engine peer: the senders passed to RemoveTrack
    remove_count,     \* calls of the parent's RemoveLocalVideoTrack
    inflight,         \* sink dispatches in progress on the worker thread
    lastQuery,        \* <<value returned by the latest IsEnabled>>
    abortAt,          \* which RTC_CHECK terminated the process
    lastOp,           \* the latest call made on the adapter, with arguments
    tick,             \* flips at every call made on the adapter
    rfp_calls         \* RemoveFromPeerConnection calls made by the owner

vars == <<pc, caller, ownerArg, trackArg, senderArg, handleArg, owner_,
          track_, sender_, interop_handle_, peerArg, parentMode, track,
          remove_track_calls, remove_count, inflight, lastQuery, abortAt,
          lastOp, tick, rfp_calls>>

args == <<ownerArg, trackArg, senderArg, handleArg, parentMode>>
members == <<owner_, track_, sender_, interop_handle_>>
engine == <<track, remove_track_calls, remove_count>>
history == <<lastOp, tick, rfp_calls>>

\* The record of a call made on the adapter.
Op(name, b, peer) == [name |-> name, b |-> b, peer |-> peer]

Called(name, b, peer) ==
    /\ lastOp' = Op(name, b, peer)
    /\ tick' = ~tick

\* ------------------------------------------------------- engine: the track
TrackInit(e) ==
    [registered |-> FALSE, rotation_applied |-> FALSE, enabled |-> e,
     attach_count |-> 0, detach_count |-> 0]

\* VideoTrackInterface::AddOrUpdateSink(sink, wants)
AddOrUpdateSink(t, rotation_applied) ==
    track' = [track EXCEPT ![t] =
                [@ EXCEPT !.registered = TRUE,
                          !.rotation_applied = rotation_applied,
                          !.attach_count = @ + 1]]

\* VideoTrackInterface::RemoveSink(sink): returns only when no dispatch to
\* the sink is in progress.
RemoveSink(t) ==
    /\ inflight = 0
    /\ track' = [track EXCEPT ![t] =
                   [@ EXCEPT !.registered = FALSE,
                             !.detach_count = @ + 1]]

\* VideoTrackInterface::set_enabled(enabled)
set_enabled(t, b) ==
    track' = [track EXCEPT ![t] = [@ EXCEPT !.enabled = b]]

\* VideoTrackInterface::enabled()
enabled(t) == track[t].enabled

\* PeerConnectionInterface::RemoveTrack(sender)
RemoveTrack(peer, s) ==
    remove_track_calls' =
        [remove_track_calls EXCEPT ![peer] = Append(@, s)]

\* ------------------------------------------------------------------- Init
Init ==
    /\ pc = "start"
    /\ caller = "idle"
    /\ ownerArg \in Owners \cup {NULL}
    /\ trackArg \in Tracks
    /\ senderArg \in Senders \cup {NULL}
    /\ handleArg \in Handles
    /\ owner_ = NULL
    /\ track_ = NULL
    /\ sender_ = NULL
    /\ interop_handle_ = "h0"
    /\ peerArg = NULL
    /\ parentMode \in ParentModes
    /\ track \in [Tracks -> {TrackInit(TRUE), TrackInit(FALSE)}]
    /\ remove_track_calls = [p \in Peers |-> <<>>]
    /\ remove_count = 0
    /\ inflight = 0
    /\ lastQuery = <<>>
    /\ abortAt = "none"
    /\ lastOp = Op("none", FALSE, NULL)
    /\ tick = FALSE
    /\ rfp_calls = 0

\* ------------------------------------------------------------ constructor
\* Ctor_Members without the initialiser of sender_ (line 19).
Ctor_Members_NoSender ==
    /\ pc = "start"
    /\ owner_' = ownerArg
    /\ track_' = trackArg
    /\ sender_' = NULL
    /\ interop_handle_' = handleArg
    /\ pc' = "ctor21"
    /\ Called("ctor", FALSE, NULL)
    /\ UNCHANGED <<caller, args, peerArg, engine, inflight, lastQuery,
                   abortAt, rfp_calls>>

\* Lines 17-20: the member initialisers.
Ctor_Members ==
    /\ pc = "start"
    /\ owner_' = ownerArg
    /\ track_' = trackArg
    /\ sender_' = senderArg
    /\ interop_handle_' = handleArg
    /\ pc' = "ctor21"
    /\ Called("ctor", FALSE, NULL)
    /\ UNCHANGED <<caller, args, peerArg, engine, inflight, lastQuery,
                   abortAt, rfp_calls>>

\* Line 21: RTC_CHECK(owner_).  owner_ is the address of a C++ reference
\* parameter: when the caller bound it to a null pointer the behaviour is
\* undefined, and a build may keep the check (the process terminates) or
\* drop it as always true (construction goes on).
Ctor_Check ==
    /\ pc = "ctor21"
    /\ \/ /\ owner_ # NULL
          /\ pc' = "ctor24"
          /\ UNCHANGED abortAt
       \/ /\ owner_ = NULL
          /\ pc' = "aborted"
          /\ abortAt' = "ctor21"
       \/ /\ owner_ = NULL
          /\ pc' = "ctor24"
          /\ UNCHANGED abortAt
    /\ UNCHANGED <<caller, args, members, peerArg, engine, inflight,
                   lastQuery, history>>

\* Ctor_AddSink without line 23: the settings keep their default.
Ctor_AddSink_DefaultWants ==
    /\ pc = "ctor24"
    /\ AddOrUpdateSink(track_, FALSE)
    /\ pc' = "idle"
    /\ UNCHANGED <<caller, args, members, peerArg, remove_track_calls,
                   remove_count, inflight, lastQuery, abortAt, history>>

\* Lines 22-24: sink_settings.rotation_applied = true; AddOrUpdateSink.
Ctor_AddSink ==
    /\ pc = "ctor24"
    /\ AddOrUpdateSink(track_, TRUE)
    /\ pc' = "idle"
    /\ UNCHANGED <<caller, args, members, peerArg, remove_track_calls,
                   remove_count, inflight, lastQuery, abortAt, history>>

\* ------------------------------------------------- IsEnabled / SetEnabled
\* Lines 35-37.
IsEnabled ==
    /\ pc = "idle"
    /\ lastQuery' = <<enabled(track_)>>
    /\ Called("IsEnabled", FALSE, NULL)
    /\ UNCHANGED <<pc, caller, args, members, peerArg, engine, inflight,
                   abortAt, rfp_calls>>

\* SetEnabled that treats disabling as detaching: SetEnabled(false) also
\* clears sender_ and owner_.
SetEnabled_Detaches(b) ==
    /\ pc = "idle"
    /\ set_enabled(track_, b)
    /\ IF b THEN UNCHANGED <<owner_, sender_>>
            ELSE sender_' = NULL /\ owner_' = NULL
    /\ Called("SetEnabled", b, NULL)
    /\ UNCHANGED <<pc, caller, args, track_, interop_handle_, peerArg,
                   remove_track_calls, remove_count, inflight, lastQuery,
                   abortAt, rfp_calls>>

\* SetEnabled forwarding only while the adapter still has its sender.
SetEnabled_AttachedOnly(b) ==
    /\ pc = "idle"
    /\ IF sender_ # NULL THEN set_enabled(track_, b) ELSE UNCHANGED track
    /\ Called("SetEnabled", b, NULL)
    /\ UNCHANGED <<pc, caller, args, members, peerArg, remove_track_calls,
                   remove_count, inflight, lastQuery, abortAt, rfp_calls>>

\* Lines 39-41.
SetEnabled(b) ==
    /\ pc = "idle"
    /\ set_enabled(track_, b)
    /\ Called("SetEnabled", b, NULL)
    /\ UNCHANGED <<pc, caller, args, members, peerArg, remove_track_calls,
                   remove_count, inflight, lastQuery, abortAt, rfp_calls>>

\* ----------------------------------------------- RemoveFromPeerConnection
\* RFP_Test without the test of sender_: every call goes on to RemoveTrack.
RFP_Test_Unguarded(from, peer) ==
    /\ pc' = "rfp46"
    /\ caller' = from
    /\ peerArg' = peer

\* Line 45: the test of sender_ on entry, called from `from` with `peer`.
\* Leaves the control thread at line 46, or back in the caller.
RFP_Test(from, peer) ==
    IF sender_ # NULL
      THEN /\ pc' = "rfp46"
           /\ caller' = from
           /\ peerArg' = peer
      ELSE /\ pc' = IF from = "dtor" THEN "dtor32" ELSE "idle"
           /\ UNCHANGED <<caller, peerArg>>

\* Lines 43-45: a call by the owner of the adapter.
RFP_Call(peer) ==
    /\ pc = "idle"
    /\ rfp_calls < MaxCalls
    /\ RFP_Test("idle", peer)
    /\ Called("RemoveFromPeerConnection", FALSE, peer)
    /\ rfp_calls' = rfp_calls + 1
    /\ UNCHANGED <<args, members, engine, inflight, lastQuery, abortAt>>

\* RFP_RemoveTrack without the engine call of line 46.
RFP_RemoveTrack_NoCall ==
    /\ pc = "rfp46"
    /\ pc' = "rfp47"
    /\ UNCHANGED <<caller, args, members, peerArg, engine, inflight,
                   lastQuery, abortAt, history>>

\* RFP_RemoveTrack calling RemoveTrack on the parent's engine peer instead
\* of the peer it was given.
RFP_RemoveTrack_WrongPeer ==
    /\ pc = "rfp46"
    /\ RemoveTrack(ParentPeer, sender_)
    /\ pc' = "rfp47"
    /\ UNCHANGED <<caller, args, members, peerArg, track, remove_count,
                   inflight, lastQuery, abortAt, history>>

\* RFP_RemoveTrack that also takes the adapter off the track's sinks.
RFP_RemoveTrack_DropSink ==
    /\ pc = "rfp46"
    /\ RemoveTrack(peerArg, sender_)
    /\ RemoveSink(track_)
    /\ pc' = "rfp47"
    /\ UNCHANGED <<caller, args, members, peerArg, remove_count,
                   inflight, lastQuery, abortAt, history>>

\* Line 46: peer.RemoveTrack(sender_).
RFP_RemoveTrack ==
    /\ pc = "rfp46"
    /\ RemoveTrack(peerArg, sender_)
    /\ pc' = "rfp47"
    /\ UNCHANGED <<caller, args, members, peerArg, track, remove_count,
                   inflight, lastQuery, abortAt, history>>

\* RFP_ClearSender that also disables the track it is removing.
RFP_ClearSender_Disable ==
    /\ pc = "rfp47"
    /\ sender_' = NULL
    /\ set_enabled(track_, FALSE)
    /\ pc' = "rfp48"
    /\ UNCHANGED <<caller, args, owner_, track_, interop_handle_, peerArg,
                   remove_track_calls, remove_count, inflight, lastQuery,
                   abortAt, history>>

\* RFP_ClearSender without the store: sender_ keeps its value.
RFP_ClearSender_KeepSender ==
    /\ pc = "rfp47"
    /\ pc' = "rfp48"
    /\ UNCHANGED <<caller, args, members, peerArg, engine, inflight,
                   lastQuery, abortAt, history>>

\* Line 47: sender_ = nullptr.
RFP_ClearSender ==
    /\ pc = "rfp47"
    /\ sender_' = NULL
    /\ pc' = "rfp48"
    /\ UNCHANGED <<caller, args, owner_, track_, interop_handle_, peerArg,
                   engine, inflight, lastQuery, abortAt, history>>

\* RFP_ClearOwner that also tells the parent session to drop the adapter.
RFP_ClearOwner_NotifyParent ==
    /\ pc = "rfp48"
    /\ owner_' = NULL
    /\ remove_count' = remove_count + 1
    /\ pc' = IF caller = "dtor" THEN "dtor32" ELSE "idle"
    /\ caller' = "idle"
    /\ peerArg' = NULL
    /\ UNCHANGED <<args, track_, sender_, interop_handle_, track,
                   remove_track_calls, inflight, lastQuery, abortAt, history>>

\* RFP_ClearOwner without line 48: the back-reference stays set.
RFP_ClearOwner_KeepOwner ==
    /\ pc = "rfp48"
    /\ pc' = IF caller = "dtor" THEN "dtor32" ELSE "idle"
    /\ caller' = "idle"
    /\ peerArg' = NULL
    /\ UNCHANGED <<args, members, engine, inflight, lastQuery, abortAt,
                   history>>

\* Lines 48-50: owner_ = nullptr, and the return.
RFP_ClearOwner ==
    /\ pc = "rfp48"
    /\ owner_' = NULL
    /\ pc' = IF caller = "dtor" THEN "dtor32" ELSE "idle"
    /\ caller' = "idle"
    /\ peerArg' = NULL
    /\ UNCHANGED <<args, track_, sender_, interop_handle_, engine, inflight,
                   lastQuery, abortAt, history>>

\* ------------------------------------------------------------- destructor
\* Dtor_RemoveSink that gives up the track reference with the sink.
Dtor_RemoveSink_ReleaseTrack ==
    /\ pc = "idle"
    /\ RemoveSink(track_)
    /\ track_' = NULL
    /\ pc' = "dtor29"
    /\ Called("dtor", FALSE, NULL)
    /\ UNCHANGED <<caller, args, owner_, sender_, interop_handle_, peerArg,
                   remove_track_calls, remove_count, inflight, lastQuery,
                   abortAt, rfp_calls>>

\* Dtor_RemoveSink without line 28: the sink stays registered.
Dtor_RemoveSink_Skip ==
    /\ pc = "idle"
    /\ pc' = "dtor29"
    /\ Called("dtor", FALSE, NULL)
    /\ UNCHANGED <<caller, args, members, peerArg, engine, inflight,
                   lastQuery, abortAt, rfp_calls>>

\* Dtor_RemoveSink deregistering only an adapter that is still attached.
Dtor_RemoveSink_IfOwner ==
    /\ pc = "idle"
    /\ IF owner_ # NULL THEN RemoveSink(track_) ELSE UNCHANGED track
    /\ pc' = "dtor29"
    /\ Called("dtor", FALSE, NULL)
    /\ UNCHANGED <<caller, args, members, peerArg, remove_track_calls,
                   remove_count, inflight, lastQuery, abortAt, rfp_calls>>

\* Line 28: track_->RemoveSink(this).
Dtor_RemoveSink ==
    /\ pc = "idle"
    /\ RemoveSink(track_)
    /\ pc' = "dtor29"
    /\ Called("dtor", FALSE, NULL)
    /\ UNCHANGED <<caller, args, members, peerArg, remove_track_calls,
                   remove_count, inflight, lastQuery, abortAt, rfp_calls>>

\* PeerConnection::RemoveLocalVideoTrack(*this), as the parent behaves.
RemoveLocalVideoTrack ==
    /\ remove_count' = remove_count + 1
    /\ CASE parentMode = "reenter" ->
              /\ RFP_Test("dtor", ParentPeer)
              /\ UNCHANGED members
         [] parentMode = "clear" ->
              /\ owner_' = NULL
              /\ pc' = "dtor32"
              /\ UNCHANGED <<caller, peerArg, track_, sender_,
                             interop_handle_>>
         [] OTHER ->
              /\ pc' = "dtor32"
              /\ UNCHANGED <<caller, peerArg, members>>

\* Dtor_Owner without the call of the parent session.
Dtor_Owner_NoCall ==
    /\ pc = "dtor29"
    /\ pc' = "dtor32"
    /\ UNCHANGED <<caller, peerArg, members, remove_count>>
    /\ UNCHANGED <<args, track, remove_track_calls, inflight, lastQuery,
                   abortAt, history>>

\* Lines 29-31: if (owner_) owner_->RemoveLocalVideoTrack(*this).
Dtor_Owner ==
    /\ pc = "dtor29"
    /\ IF owner_ # NULL
         THEN RemoveLocalVideoTrack
         ELSE /\ pc' = "dtor32"
              /\ UNCHANGED <<caller, peerArg, members, remove_count>>
    /\ UNCHANGED <<args, track, remove_track_calls, inflight, lastQuery,
                   abortAt, history>>

\* Dtor_Check without the check: the destructor always goes on.
Dtor_Check_NoCheck ==
    /\ pc = "dtor32"
    /\ pc' = "dtor33"
    /\ UNCHANGED <<caller, args, members, peerArg, engine, inflight,
                   lastQuery, abortAt, history>>

\* Dtor_Check with the condition inverted: RTC_CHECK(owner_).
Dtor_Check_Inverted ==
    /\ pc = "dtor32"
    /\ IF owner_ # NULL
         THEN /\ pc' = "dtor33"
              /\ UNCHANGED abortAt
         ELSE /\ pc' = "aborted"
              /\ abortAt' = "dtor32"
    /\ UNCHANGED <<caller, args, members, peerArg, engine, inflight,
                   lastQuery, history>>

\* Line 32: RTC_CHECK(!owner_).
Dtor_Check ==
    /\ pc = "dtor32"
    /\ IF owner_ = NULL
         THEN /\ pc' = "dtor33"
              /\ UNCHANGED abortAt
         ELSE /\ pc' = "aborted"
              /\ abortAt' = "dtor32"
    /\ UNCHANGED <<caller, args, members, peerArg, engine, inflight,
                   lastQuery, history>>

\* Line 33: the end of the body; the members release their references.
Dtor_Release ==
    /\ pc = "dtor33"
    /\ sender_' = NULL
    /\ track_' = NULL
    /\ pc' = "destroyed"
    /\ UNCHANGED <<caller, args, owner_, interop_handle_, peerArg, engine,
                   inflight, lastQuery, abortAt, history>>

\* ------------------------------------------------ the engine's own thread
\* The worker thread starts delivering a frame to the registered sink.
DispatchStart ==
    /\ pc # "aborted"
    /\ \E t \in Tracks : track[t].registered
    /\ inflight < MaxInFlight
    /\ inflight' = inflight + 1
    /\ UNCHANGED <<pc, caller, args, members, peerArg, engine, lastQuery,
                   abortAt, history>>

\* A delivery returns.
DispatchEnd ==
    /\ pc # "aborted"
    /\ inflight > 0
    /\ inflight' = inflight - 1
    /\ UNCHANGED <<pc, caller, args, members, peerArg, engine, lastQuery,
                   abortAt, history>>

\* Another holder of the track's shared reference changes its enabled state.
OtherHolderSetEnabled(t, b) ==
    /\ pc # "aborted"
    /\ track[t].enabled # b
    /\ set_enabled(t, b)
    /\ UNCHANGED <<pc, caller, args, members, peerArg, remove_track_calls,
                   remove_count, inflight, lastQuery, abortAt, history>>

\* ------------------------------------------------------------------- Next
Next ==
    \/ Ctor_Members
    \/ Ctor_Check
    \/ Ctor_AddSink
    \/ IsEnabled
    \/ \E b \in BOOLEAN : SetEnabled(b)
    \/ \E peer \in Peers : RFP_Call(peer)
    \/ RFP_RemoveTrack
    \/ RFP_ClearSender
    \/ RFP_ClearOwner
    \/ Dtor_RemoveSink
    \/ Dtor_Owner
    \/ Dtor_Check
    \/ Dtor_Release
    \/ DispatchStart
    \/ DispatchEnd
    \/ \E t \in Tracks, b \in BOOLEAN : OtherHolderSetEnabled(t, b)

Spec == Init /\ [][Next]_vars

\* ------------------------------------------------------------ type sanity
TypeOK ==
    /\ pc \in {"start", "ctor21", "ctor24", "idle", "rfp46", "rfp47",
               "rfp48", "dtor29", "dtor32", "dtor33", "destroyed",
               "aborted"}
    /\ caller \in {"idle", "dtor"}
    /\ owner_ \in Owners \cup {NULL}
    /\ track_ \in Tracks \cup {NULL}
    /\ sender_ \in Senders \cup {NULL}
    /\ inflight \in 0..MaxInFlight
    /\ remove_count \in 0..1
    /\ lastQuery \in {<<>>, <<TRUE>>, <<FALSE>>}
    /\ abortAt \in {"none", "ctor21", "dtor32"}
    /\ rfp_calls \in 0..MaxCalls
    /\ tick \in BOOLEAN

\* ------------------------------------------------------- derived notions
RECURSIVE SumLen(_)
SumLen(ps) ==
    IF ps = {} THEN 0
    ELSE LET p == CHOOSE x \in ps : TRUE
         IN  Len(remove_track_calls[p]) + SumLen(ps \ {p})

\* Number of RemoveTrack calls the engine peers have received.
RemoveTrackCount == SumLen(Peers)

\* The control thread is past line 28 of the destructor.
SinkRemovalDone ==
    \/ pc \in {"dtor29", "dtor32", "dtor33", "destroyed"}
    \/ pc \in {"rfp46", "rfp47", "rfp48"} /\ caller = "dtor"
    \/ abortAt = "dtor32"

\* The constructor has returned and the destructor has not been entered.
Alive ==
    \/ pc = "idle"
    \/ pc \in {"rfp46", "rfp47", "rfp48"} /\ caller = "idle"

\* The sink calls received by the tracks: `a` attaches and `d` detaches on
\* the adapter's track, none on any other track.
SinkCalls(a, d) ==
    \A t \in Tracks :
        /\ track[t].attach_count = IF t = trackArg THEN a ELSE 0
        /\ track[t].detach_count = IF t = trackArg THEN d ELSE 0

\* ------------------------------------------------------------------ claims
\* C1: with a non-null Sender at construction the engine receives at most
\* one RemoveTrack call, exactly one once the first RemoveFromPeerConnection
\* has returned, and every RemoveFromPeerConnection after the first leaves
\* the members, the tracks (sink registration, enabled state), the engine
\* peers and the parent untouched and returns without terminating.
C1_RemoveTrackOnce ==
    /\ [](senderArg # NULL =>
            /\ RemoveTrackCount <= 1
            /\ (rfp_calls >= 1 /\ pc = "idle" => RemoveTrackCount = 1))
    /\ [][(senderArg # NULL /\ rfp_calls >= 1 /\ rfp_calls' = rfp_calls + 1)
            => /\ UNCHANGED <<members, track, remove_track_calls,
                              remove_count, abortAt>>
               /\ pc' = "idle"]_vars

C1_Witness ==
    /\ ownerArg # NULL
    /\ senderArg # NULL
    /\ rfp_calls = 2
    /\ pc = "idle"
    /\ RemoveTrackCount = 1

\* C2: once the destructor has run line 28 the adapter's track has received
\* exactly one RemoveSink matching the one AddOrUpdateSink, the sink is no
\* longer registered, and no sink call follows (the counts stay at one in
\* every later state, whether the adapter was attached or detached).
C2_DetachOnceOnDestruction ==
    SinkRemovalDone =>
        /\ SinkCalls(1, 1)
        /\ \A t \in Tracks : ~track[t].registered

C2_Witness ==
    /\ ownerArg # NULL
    /\ pc = "destroyed"
    /\ rfp_calls >= 1
    /\ senderArg # NULL
    /\ SinkCalls(1, 1)

\* C3: until the constructor's last step no sink call has been made; when
\* it returns the adapter's track has received exactly one AddOrUpdateSink,
\* with rotation_applied = true, no RemoveTrack and no parent removal has
\* been made, and the members hold the constructor's arguments (Sender and
\* back-reference present when the arguments were).
C3_ConstructedAttached ==
    /\ pc \in {"start", "ctor21", "ctor24"} =>
          /\ SinkCalls(0, 0)
          /\ RemoveTrackCount = 0
          /\ remove_count = 0
    /\ (pc = "idle" /\ lastOp.name = "ctor") =>
          /\ SinkCalls(1, 0)
          /\ track[trackArg].registered
          /\ track[trackArg].rotation_applied
          /\ RemoveTrackCount = 0
          /\ remove_count = 0
          /\ sender_ = senderArg
          /\ owner_ = ownerArg
          /\ track_ = trackArg
          /\ interop_handle_ = handleArg

C3_Witness ==
    /\ pc = "idle"
    /\ lastOp.name = "ctor"
    /\ sender_ # NULL
    /\ owner_ # NULL
    /\ track[trackArg].attach_count = 1
    /\ track[trackArg].rotation_applied

\* C4: after an explicit RemoveFromPeerConnection on an adapter built with a
\* Sender, destruction never calls the parent's RemoveLocalVideoTrack, is
\* never terminated by the final check, and detaches the sink exactly once.
C4_DestroyAfterRemoval ==
    (senderArg # NULL /\ rfp_calls >= 1) =>
        /\ remove_count = 0
        /\ abortAt # "dtor32"
        /\ (SinkRemovalDone => SinkCalls(1, 1))
        /\ (pc \in {"dtor29", "dtor32"} => owner_ = NULL /\ sender_ = NULL)

C4_Witness ==
    /\ senderArg # NULL
    /\ ownerArg # NULL
    /\ rfp_calls >= 1
    /\ pc = "destroyed"
    /\ remove_count = 0
    /\ track[trackArg].detach_count = 1

\* C5: destroying an adapter that is still attached (parent and Sender
\* given, no explicit removal) calls the parent's RemoveLocalVideoTrack
\* exactly once and detaches the sink exactly once, and with a parent that
\* clears the back-reference the final check does not terminate the process.
C5_DestroyWhileAttached ==
    (ownerArg # NULL /\ senderArg # NULL /\ rfp_calls = 0) =>
        /\ remove_count <= 1
        /\ (SinkRemovalDone /\ pc # "dtor29") =>
              /\ remove_count = 1
              /\ SinkCalls(1, 1)
        /\ (pc = "dtor29" => remove_count = 0 /\ SinkCalls(1, 1))
        /\ (parentMode # "noop" => abortAt # "dtor32")

C5_Witness ==
    /\ ownerArg # NULL
    /\ senderArg # NULL
    /\ rfp_calls = 0
    /\ parentMode # "noop"
    /\ pc = "destroyed"
    /\ remove_count = 1
    /\ track[trackArg].detach_count = 1

\* C6 as stated: while a delivery of the worker thread is in progress on a
\* live adapter, sender_ and owner_ are never seen with exactly one of them
\* cleared.
C6_AtomicForWorker ==
    (Alive /\ inflight > 0 /\ senderArg # NULL /\ ownerArg # NULL) =>
        ((sender_ = NULL) <=> (owner_ = NULL))

\* C6 amended: on a live adapter built with a parent and a Sender, exactly
\* one of sender_ and owner_ is cleared only while the control thread stands
\* between lines 47 and 48 of RemoveFromPeerConnection (sender_ cleared,
\* owner_ still set); once the call has returned both are cleared.
C6_ClearedTogetherOnReturn ==
    (Alive /\ senderArg # NULL /\ ownerArg # NULL) =>
        /\ IF pc = "rfp48"
             THEN sender_ = NULL /\ owner_ # NULL
             ELSE (sender_ = NULL) <=> (owner_ = NULL)
        /\ (pc = "idle" /\ rfp_calls >= 1) =>
              (sender_ = NULL /\ owner_ = NULL)

C6_Witness ==
    /\ senderArg # NULL
    /\ ownerArg # NULL
    /\ pc = "idle"
    /\ rfp_calls = 1
    /\ inflight > 0
    /\ sender_ = NULL
    /\ owner_ = NULL

\* C7: a delivery to the sink is in progress only while the sink is
\* registered, between the constructor's AddOrUpdateSink and the destructor's
\* RemoveSink: none before construction has finished, and none once line 28
\* has returned, so none overlaps the parent removal, the final check or the
\* release of the references.
C7_DispatchOnlyWhileRegistered ==
    /\ inflight > 0 => (Alive /\ track[trackArg].registered)
    /\ SinkRemovalDone => inflight = 0
    /\ pc \in {"start", "ctor21", "ctor24"} => inflight = 0

C7_Witness ==
    /\ pc = "dtor32"
    /\ remove_count = 1
    /\ inflight = 0
    /\ ~track[trackArg].registered
    /\ track[trackArg].detach_count = 1

\* C8: attached or detached, a SetEnabled(b) call sets the enabled state of
\* the adapter's track to b and changes nothing else of the tracks, an
\* IsEnabled call returns the enabled state the track has at the call
\* (whoever set it last) and changes no track, and both return normally.
C8_EnabledForwarding ==
    [][/\ (tick' # tick /\ lastOp'.name = "SetEnabled") =>
            /\ track' = [track EXCEPT ![trackArg].enabled = lastOp'.b]
            /\ pc' = "idle"
       /\ (tick' # tick /\ lastOp'.name = "IsEnabled") =>
            /\ lastQuery' = <<track[trackArg].enabled>>
            /\ track' = track
            /\ pc' = "idle"]_vars

C8_Witness ==
    /\ ownerArg # NULL
    /\ senderArg # NULL
    /\ rfp_calls >= 1
    /\ pc = "idle"
    /\ sender_ = NULL
    /\ owner_ = NULL
    /\ lastOp = Op("SetEnabled", TRUE, NULL)
    /\ track[trackArg].enabled

C10_RegisteredWhileAlive ==
    Alive =>
        /\ track[trackArg].registered
        /\ SinkCalls(1, 0)
        /\ \A t \in Tracks \ {trackArg} : ~track[t].registered

C10_Witness ==
    /\ ownerArg # NULL
    /\ pc = "idle"
    /\ senderArg # NULL
    /\ rfp_calls >= 1
    /\ sender_ = NULL
    /\ owner_ = NULL
    /\ track[trackArg].registered
    /\ lastOp.name = "SetEnabled"

\* The engine peers have received RemoveTrack for the adapter's sender.
SenderRemoved ==
    \E p \in Peers : \E i \in 1..Len(remove_track_calls[p]) :
        remove_track_calls[p][i] = senderArg

\* The back-reference was set when the destructor was entered.
OwnerSetAtDestruction ==
    /\ ownerArg # NULL
    /\ rfp_calls = 0 \/ senderArg = NULL

\* C11: for an adapter built with a parent and a Sender, in every state
\* between two calls made on it (the control thread is in no method) the
\* Sender reference is set exactly when the back-reference is: both hold the
\* constructor's arguments, or both are null.
C11_BothOrNeitherBetweenCalls ==
    (pc = "idle" /\ senderArg # NULL /\ ownerArg # NULL) =>
        /\ (sender_ # NULL) <=> (owner_ # NULL)
        /\ \/ sender_ = senderArg /\ owner_ = ownerArg
           \/ sender_ = NULL /\ owner_ = NULL

C11_Witness ==
    /\ pc = "idle"
    /\ senderArg # NULL
    /\ ownerArg # NULL
    /\ lastOp.name = "IsEnabled"
    /\ rfp_calls = 0
    /\ sender_ # NULL
    /\ owner_ # NULL

\* C12: for an adapter built with a Sender, at every point where the control
\* thread is not between the RemoveTrack call and the store that follows it
\* (after construction, between calls, and throughout the destructor body)
\* the Sender reference is null exactly when the engine has received
\* RemoveTrack for that Sender.
C12_SenderNullIffRemoved ==
    (senderArg # NULL /\
     pc \in {"idle", "rfp46", "rfp48", "dtor29", "dtor32", "dtor33"}) =>
        ((sender_ = NULL) <=> SenderRemoved)

C12_Witness ==
    /\ senderArg # NULL
    /\ ownerArg # NULL
    /\ parentMode = "clear"
    /\ pc = "dtor33"
    /\ remove_count = 1
    /\ sender_ # NULL
    /\ ~SenderRemoved

\* C13: the destructor runs RemoveSink first, then the parent removal (when
\* the back-reference is set), then the check of the back-reference, then
\* the release of the references: the parent is called only once the sink
\* is off the track, the references are held until the check has passed, and
\* a destructor that returns has called the parent if the back-reference
\* was set on entry.
C13_DestructorOrder ==
    /\ remove_count > 0 =>
          /\ ~track[trackArg].registered
          /\ track[trackArg].detach_count = 1
    /\ pc = "dtor29" => remove_count = 0 /\ track[trackArg].detach_count = 1
    /\ (SinkRemovalDone /\ pc # "destroyed") => track_ = trackArg
    /\ pc \in {"dtor29", "dtor32"} => sender_ \in {senderArg, NULL}
    /\ pc \in {"dtor33", "destroyed"} =>
          /\ owner_ = NULL
          /\ track[trackArg].detach_count = 1
    /\ (pc \in {"dtor32", "dtor33", "destroyed"} /\ OwnerSetAtDestruction)
          => remove_count = 1
    /\ pc = "destroyed" => track_ = NULL /\ sender_ = NULL

C13_Witness ==
    /\ pc = "destroyed"
    /\ ownerArg # NULL
    /\ senderArg # NULL
    /\ rfp_calls = 0
    /\ remove_count = 1
    /\ track[trackArg].detach_count = 1
    /\ track_ = NULL
    /\ lastQuery # <<>>

\* C14: on an attached adapter RemoveFromPeerConnection calls RemoveTrack on
\* the peer it was given, with the Sender the adapter was built with, while
\* both references are still set; when it has returned that peer has
\* received exactly <<Sender>>, no other peer has received anything, and
\* both references are null.
C14_RemoveTrackBeforeClear ==
    (senderArg # NULL /\ ownerArg # NULL) =>
        /\ (pc = "rfp46" /\ caller = "idle") =>
              /\ RemoveTrackCount = 0
              /\ sender_ = senderArg
              /\ peerArg = lastOp.peer
        /\ pc = "rfp47" =>
              /\ sender_ = senderArg
              /\ owner_ = ownerArg
              /\ remove_track_calls[peerArg] = <<senderArg>>
              /\ RemoveTrackCount = 1
        /\ (pc = "idle" /\ rfp_calls = 1 /\
            lastOp.name = "RemoveFromPeerConnection") =>
              remove_track_calls[lastOp.peer] = <<senderArg>>
        /\ (pc = "idle" /\ rfp_calls >= 1) =>
              /\ \E p \in Peers : remove_track_calls[p] = <<senderArg>>
              /\ RemoveTrackCount = 1
              /\ sender_ = NULL
              /\ owner_ = NULL

C14_Witness ==
    /\ senderArg = "S2"
    /\ ownerArg # NULL
    /\ pc = "idle"
    /\ rfp_calls = 1
    /\ remove_track_calls = [p \in Peers |->
                                IF p = "E2" THEN <<"S2">> ELSE <<>>]
    /\ sender_ = NULL
    /\ owner_ = NULL

\* C15: the destructor never gets past line 32 with the back-reference set:
\* when the parent's removal returns without clearing it the process is
\* terminated at line 32, after the one RemoveSink and the one parent call.
C15_FatalOnUnclearedOwner ==
    /\ pc \in {"dtor33", "destroyed"} => owner_ = NULL
    /\ (parentMode = "noop" /\ OwnerSetAtDestruction) =>
          pc \notin {"dtor33", "destroyed"}
    /\ abortAt = "dtor32" =>
          /\ pc = "aborted"
          /\ owner_ # NULL
          /\ remove_count = 1
          /\ SinkCalls(1, 1)
    /\ (pc = "aborted" /\ ownerArg # NULL) => abortAt = "dtor32"

C15_Witness ==
    /\ abortAt = "dtor32"
    /\ parentMode = "noop"
    /\ senderArg # NULL
    /\ remove_count = 1
    /\ track[trackArg].detach_count = 1
    /\ owner_ # NULL

\* The lifecycle state of the adapter.
Life ==
    CASE pc \in {"start", "ctor21", "ctor24"} -> "Constructing"
      [] Alive /\ sender_ # NULL -> "Attached"
      [] Alive /\ sender_ = NULL -> "Detached"
      [] OTHER -> "Finalizing"

\* C16: an adapter built with a parent and a Sender moves only from
\* Attached to Detached (inside RemoveFromPeerConnection, at line 47), and
\* from Attached or Detached to Finalizing (by entering the destructor);
\* Finalizing is never left, and once sender_ or owner_ is null it stays
\* null.
C16_Lifecycle ==
    [][(senderArg # NULL /\ ownerArg # NULL) =>
         /\ Life' # Life =>
               <<Life, Life'>> \in {<<"Constructing", "Attached">>,
                                    <<"Attached", "Detached">>,
                                    <<"Attached", "Finalizing">>,
                                    <<"Detached", "Finalizing">>}
         /\ (Life = "Attached" /\ Life' = "Detached") =>
               /\ lastOp.name = "RemoveFromPeerConnection"
               /\ pc = "rfp47"
         /\ (Life # "Finalizing" /\ Life' = "Finalizing") =>
               /\ lastOp'.name = "dtor"
               /\ tick' # tick
         /\ (pc # "start" /\ sender_ = NULL) => sender_' = NULL
         /\ (pc # "start" /\ owner_ = NULL) => owner_' = NULL]_vars

C16_Witness ==
    /\ senderArg # NULL
    /\ ownerArg # NULL
    /\ Life = "Finalizing"
    /\ pc = "destroyed"
    /\ rfp_calls = 2
    /\ lastOp.name = "dtor"
    /\ RemoveTrackCount = 1

\* C17: the parent's RemoveLocalVideoTrack is called at most once, and only
\* by the destructor at lines 29-31 with the back-reference set: never
\* before the destructor has removed the sink, so never by the constructor,
\* IsEnabled, SetEnabled or RemoveFromPeerConnection.
C17_ParentCalledOnlyByDestructor ==
    /\ [](remove_count <= 1 /\ (~SinkRemovalDone => remove_count = 0))
    /\ [][remove_count' # remove_count =>
             /\ pc = "dtor29"
             /\ owner_ # NULL
             /\ remove_count = 0
             /\ remove_count' = 1]_vars

C17_Witness ==
    /\ ownerArg # NULL
    /\ senderArg = NULL
    /\ rfp_calls >= 1
    /\ parentMode = "clear"
    /\ lastQuery # <<>>
    /\ pc = "destroyed"
    /\ remove_count = 1

\* C18: an IsEnabled call changes no member, no track, no engine peer and
\* not the parent; a SetEnabled(b) call changes only the enabled state of the
\* adapter's track; every step of RemoveFromPeerConnection leaves the tracks
\* (enabled state, sink registration), track_ and interop_handle_ as they
\* are.
C18_Frame ==
    [][/\ (tick' # tick /\ lastOp'.name = "IsEnabled") =>
            UNCHANGED <<members, track, remove_track_calls, remove_count>>
       /\ (tick' # tick /\ lastOp'.name = "SetEnabled") =>
            /\ UNCHANGED <<members, remove_track_calls, remove_count>>
            /\ \A t \in Tracks :
                  track'[t] = [track[t] EXCEPT !.enabled = track'[t].enabled]
            /\ \A t \in Tracks \ {trackArg} : track'[t] = track[t]
       /\ (\/ tick' # tick /\ lastOp'.name = "RemoveFromPeerConnection"
           \/ pc \in {"rfp46", "rfp47", "rfp48"} /\ pc' # pc) =>
            /\ track' = track
            /\ track_' = track_
            /\ interop_handle_' = interop_handle_
            /\ remove_count' = remove_count]_vars

C18_Witness ==
    /\ senderArg # NULL
    /\ ownerArg # NULL
    /\ handleArg = "h1"
    /\ pc = "idle"
    /\ lastOp.name = "RemoveFromPeerConnection"
    /\ rfp_calls = 1
    /\ sender_ = NULL
    /\ interop_handle_ = "h1"
    /\ track[trackArg].enabled
    /\ track[trackArg].registered

\* C19: from the member initialisers until the destructor body has finished
\* track_ is the track the adapter was built with; IsEnabled, SetEnabled and
\* the destructor's RemoveSink are made on it, and no other track is ever
\* changed or given a sink call by the adapter.
C19_TrackReferenceStable ==
    /\ [](/\ pc \notin {"start", "destroyed"} => track_ = trackArg
          /\ \A t \in Tracks \ {trackArg} :
                /\ ~track[t].registered
                /\ track[t].attach_count = 0
                /\ track[t].detach_count = 0)
    /\ [][(tick' # tick /\
            lastOp'.name \in {"IsEnabled", "SetEnabled", "dtor"}) =>
             /\ track_ = trackArg
             /\ track_' = track_
             /\ \A t \in Tracks \ {trackArg} : track'[t] = track[t]]_vars

C19_Witness ==
    /\ trackArg = "T2"
    /\ ownerArg # NULL
    /\ pc = "dtor33"
    /\ track_ = "T2"
    /\ rfp_calls >= 1
    /\ lastQuery # <<>>
    /\ track["T2"].detach_count = 1

\* C20: with a parent whose RemoveLocalVideoTrack calls the adapter's
\* RemoveFromPeerConnection, destroying an adapter built with a parent and a
\* Sender ends with exactly one RemoveTrack, made with the adapter's Sender
\* (on the parent's peer when there was no explicit removal), both
\* references null and the final check passed; at no time have the explicit
\* and the destructor-driven removal made more than one RemoveTrack.
C20_ReentrantRemovalOnDestruction ==
    (parentMode = "reenter" /\ senderArg # NULL /\ ownerArg # NULL) =>
        /\ RemoveTrackCount <= 1
        /\ abortAt # "dtor32"
        /\ pc \in {"dtor32", "dtor33", "destroyed"} =>
              /\ RemoveTrackCount = 1
              /\ SenderRemoved
              /\ owner_ = NULL
              /\ sender_ = NULL
              /\ remove_count = IF rfp_calls = 0 THEN 1 ELSE 0
              /\ rfp_calls = 0 =>
                    remove_track_calls[ParentPeer] = <<senderArg>>
        /\ (pc \in {"rfp46", "rfp47", "rfp48"} /\ caller = "dtor") =>
              /\ rfp_calls = 0
              /\ remove_count = 1
              /\ ~track[trackArg].registered

C20_Witness ==
    /\ parentMode = "reenter"
    /\ senderArg # NULL
    /\ ownerArg # NULL
    /\ rfp_calls = 0
    /\ pc = "destroyed"
    /\ remove_count = 1
    /\ remove_track_calls[ParentPeer] = <<senderArg>>
    /\ RemoveTrackCount = 1
    /\ owner_ = NULL

====
